---- MODULE Spec2Model ----
(***************************************************************************)
(* Model of src/src/App.jsx (ChatApp): the authentication bootstrap, the   *)
(* feed subscription effect, the snapshot ordering and the composer.       *)
(*                                                                         *)
(* React semantics used by the model:                                      *)
(*   - useState values are the values of the last committed render; event  *)
(*     handlers and effects read them through their closure.               *)
(*   - a setState call made from an asynchronous callback (auth observer,  *)
(*     snapshot listener, promise continuation) is queued (pend) and is    *)
(*     committed by a later Render; several callbacks may run before it.   *)
(*   - a setState call made from a discrete DOM event (onChange) is        *)
(*     rendered synchronously at the end of the event.                     *)
(*   - a passive effect whose dependencies changed runs after the commit,  *)
(*     and always before the next render or the unmount.                   *)
(*   - refs (dbRef, unsubRef) are read and written in place.               *)
(***************************************************************************)
EXTENDS Integers, Sequences, FiniteSets, TLC

VARIABLES
  userId, isAuthReady, messages, newMessage, status,  \* committed useState values
  pend,            \* queued setState calls, not yet rendered
  dbRef, unsubRef, \* useRef cells
  mount,           \* "initial" | "mounted" | "unmounted"
  authObserver,    \* the onAuthStateChanged observer is registered
  authCleanup,     \* the auth effect returned its cleanup function
  feedEffectPending, \* the feed effect is scheduled (its deps changed)
  feedCleanup,     \* the last run of the feed effect returned its cleanup
  provUser,        \* identity provider: the current user
  notifQ,          \* identity provider: notifications not yet delivered
  authInFlight,    \* sign-in calls awaiting their result
  revokes,         \* number of times the provider dropped the user
  live,            \* document store: handles with an attached listener
  opened,          \* document store: number of handles returned by onSnapshot
  releaseCalls,    \* per handle, number of calls of its unsubscribe function
  inflight,        \* addDoc calls awaiting their result
  lastSnap,        \* history: the last snapshot delivered to the listener
  lastLog,         \* console: what the last step passed to console.error, or "none"
  acked,           \* history: the write whose addDoc resolved last, while only
                   \* snapshot deliveries have followed (NoAck otherwise)
  docsIn, docsOut, docsAgain, sortPc  \* ordering policy harness (SortSpec)

vars == <<userId, isAuthReady, messages, newMessage, status, pend, dbRef,
          unsubRef, mount, authObserver, authCleanup, feedEffectPending,
          feedCleanup, provUser, notifQ, authInFlight, revokes, live, opened,
          releaseCalls, inflight, lastSnap, lastLog, acked, docsIn, docsOut,
          docsAgain, sortPc>>

appVars == <<userId, isAuthReady, messages, newMessage, status, pend, dbRef,
             unsubRef, mount, authObserver, authCleanup, feedEffectPending,
             feedCleanup, provUser, notifQ, authInFlight, revokes, live, opened,
             releaseCalls, inflight, lastSnap, lastLog, acked>>

sortVars == <<docsIn, docsOut, docsAgain, sortPc>>

(***************************************************************************)
(* Bounds and input sets                                                   *)
(***************************************************************************)
MaxRevokes == 1
MaxInFlight == 2
MaxSnapLen == 3

NULL == "null"
Users == {"u1", "u2"}
DocIds == {"m1", "m2", "m3"}
\* a timestamp field: <<>> when absent (not yet stamped), else <<millis>>
Times == {<<>>, <<1000>>, <<2000>>}
\* { id: d.id, ...data } with the fields addDoc writes (lines 159-163)
DocBy(i, t, u, x) == [id |-> i, timestamp |-> t, userId |-> u, text |-> x]

Doc(i, t) == DocBy(i, t, "u1", <<"h">>)

Docs == {Doc(i, t) : i \in DocIds, t \in Times}

RECURSIVE SeqsUpTo(_, _)
SeqsUpTo(S, n) ==
  IF n = 0 THEN {<<>>}
  ELSE LET shorter == SeqsUpTo(S, n - 1)
       IN shorter \cup {Append(s, x) : s \in shorter, x \in S}

DistinctIds(s) == \A i, j \in 1..Len(s) : i # j => s[i].id # s[j].id

\* every snapshot of at most MaxSnapLen documents with distinct ids
Snapshots == {s \in SeqsUpTo(Docs, MaxSnapLen) : DistinctIds(s)}

\* the snapshots delivered to the listener in the application model
FeedSnapshots ==
  { <<DocBy("m1", <<2000>>, "u2", <<"h">>), Doc("m2", <<1000>>)>>,
    <<Doc("m3", <<1000>>), Doc("m2", <<>>)>> }

\* drafts typed into the input: sequences of characters
Drafts == { <<>>, <<" ">>, <<" ", "h", " ">> }

(***************************************************************************)
(* Pure helpers                                                            *)
(***************************************************************************)
IsSpace(c) == c = " "

RECURSIVE TrimStart(_)
TrimStart(s) ==
  IF s = <<>> THEN s
  ELSE IF IsSpace(Head(s)) THEN TrimStart(Tail(s)) ELSE s

RECURSIVE TrimEnd(_)
TrimEnd(s) ==
  IF s = <<>> THEN s
  ELSE IF IsSpace(s[Len(s)]) THEN TrimEnd(SubSeq(s, 1, Len(s) - 1)) ELSE s

\* String.prototype.trim
Trim(s) == TrimEnd(TrimStart(s))

\* a.timestamp?.toMillis ? a.timestamp.toMillis() : 0
ToMillisOrZero(d) == IF d.timestamp = <<>> THEN 0 ELSE d.timestamp[1]

\* mutant: the operands of the subtraction swapped
ComparatorDescending(a, b) == ToMillisOrZero(b) - ToMillisOrZero(a)

\* the comparator handed to docs.sort
Comparator(a, b) == ToMillisOrZero(a) - ToMillisOrZero(b)

\* mutant: a comparator result test that also moves equal keys
InsertSortedUnstable(d, s) ==
  LET before == {i \in 1..Len(s) : \A j \in 1..i : Comparator(s[j], d) < 0}
      k == Cardinality(before)
  IN SubSeq(s, 1, k) \o <<d>> \o SubSeq(s, k + 1, Len(s))

\* Array.prototype.sort is stable: an element is placed after every element
\* that does not compare greater than it
InsertSorted(d, s) ==
  LET before == {i \in 1..Len(s) : \A j \in 1..i : Comparator(s[j], d) <= 0}
      k == Cardinality(before)
  IN SubSeq(s, 1, k) \o <<d>> \o SubSeq(s, k + 1, Len(s))

RECURSIVE SortFrom(_, _)
SortFrom(s, acc) ==
  IF s = <<>> THEN acc ELSE SortFrom(Tail(s), InsertSorted(Head(s), acc))

\* docs.sort((a, b) => ta - tb) applied to the documents pushed by snap.forEach
SortDocs(s) == SortFrom(s, <<>>)

(***************************************************************************)
(* Queued state updates                                                    *)
(***************************************************************************)
\* no write acknowledged in the last step
NoAck == [text |-> <<>>, userId |-> NULL, shown |-> FALSE]

\* docs holds a message with the author and the text of the write w
HasMessage(docs, w) ==
  \E k \in 1..Len(docs) : docs[k].userId = w.userId /\ docs[k].text = w.text

\* each field: <<>> (no update queued) or <<value>> (the last value set)
NoPend == [userId |-> <<>>, isAuthReady |-> <<>>, messages |-> <<>>,
           newMessage |-> <<>>, status |-> <<>>]

Latest(cur, p) == IF p = <<>> THEN cur ELSE p[1]

\* setState after unmount is ignored by React
SetState(p) == IF mount = "mounted" \/ mount = "initial" THEN p ELSE pend

(***************************************************************************)
(* Initial state: the first render of ChatApp, before its effects ran      *)
(***************************************************************************)
SortIdle == docsIn = <<>> /\ docsOut = <<>> /\ docsAgain = <<>> /\ sortPc = "idle"

AppInit ==
  /\ userId = NULL                    \* useState(null)
  /\ isAuthReady = FALSE              \* useState(false)
  /\ messages = <<>>                  \* useState([])
  /\ newMessage = <<>>                \* useState('')
  /\ status = "Connecting..."         \* useState('Connecting...')
  /\ pend = NoPend
  /\ dbRef = FALSE                    \* useRef(null)
  /\ unsubRef = 0                     \* useRef(null)
  /\ mount = "initial"
  /\ authObserver = FALSE
  /\ authCleanup = FALSE
  /\ feedEffectPending = FALSE
  /\ feedCleanup = FALSE
  /\ provUser \in {NULL} \cup Users   \* the provider may hold a persisted user
  /\ notifQ = <<>>
  /\ authInFlight = 0
  /\ revokes = 0
  /\ live = {}
  /\ opened = 0
  /\ releaseCalls = <<>>
  /\ inflight = <<>>
  /\ lastSnap = <<>>
  /\ acked = NoAck
  /\ lastLog = "none"

Init == AppInit /\ SortIdle

(***************************************************************************)
(* Auth bootstrap effect                                                   *)
(***************************************************************************)
\* mutant: doAuth starts a second sign-in call
DoAuthTwice(n) == n + 2

\* doAuth(): one signInWithCustomToken / signInAnonymously call is started
DoAuth(n) == n + 1

\* mutant: the throw comes after onAuthStateChanged has registered the observer
AuthEffectLateThrow(initThrows) ==
  /\ mount = "initial"
  /\ mount' = "mounted"
  /\ feedEffectPending' = TRUE
  /\ authObserver' = TRUE
  /\ authCleanup' = ~initThrows
  /\ notifQ' = <<provUser>>
  /\ IF initThrows
       THEN /\ pend' = [pend EXCEPT !.status = <<"Init error">>]
            /\ lastLog' = "Firebase init error:"
            /\ UNCHANGED authInFlight
       ELSE /\ authInFlight' = authInFlight + 1
            /\ lastLog' = "none"
            /\ UNCHANGED pend
  /\ UNCHANGED <<userId, isAuthReady, messages, newMessage, status, dbRef,
                 unsubRef, feedCleanup, provUser, revokes, live, opened,
                 releaseCalls, inflight, lastSnap>>
  /\ acked' = NoAck
  /\ UNCHANGED sortVars

\* the effect of lines 68-108, run once after the first render.  initThrows:
\* initializeApp, getAuth or onAuthStateChanged throws, the catch sets the
\* status and the effect returns no cleanup.
AuthEffect(initThrows) ==
  /\ mount = "initial"
  /\ mount' = "mounted"
  /\ feedEffectPending' = TRUE       \* the feed effect also runs after the first render
  /\ IF initThrows
       THEN /\ pend' = [pend EXCEPT !.status = <<"Init error">>]
            /\ lastLog' = "Firebase init error:"
            /\ UNCHANGED <<authObserver, authCleanup, notifQ, authInFlight>>
       ELSE /\ authObserver' = TRUE
            /\ authCleanup' = TRUE
            /\ notifQ' = <<provUser>>           \* the provider's initial callback
            /\ authInFlight' = DoAuth(authInFlight)   \* line 99
            /\ lastLog' = "none"
            /\ UNCHANGED pend
  /\ UNCHANGED <<userId, isAuthReady, messages, newMessage, status, dbRef,
                 unsubRef, feedCleanup, provUser, revokes, live, opened,
                 releaseCalls, inflight, lastSnap>>
  /\ acked' = NoAck
  /\ UNCHANGED sortVars

\* mutant: the user branch without setUserId(user.uid)
OnAuthUserNoId(p, user) ==
  [p EXCEPT !.isAuthReady = <<TRUE>>, !.status = <<"Online">>]

\* lines 88-91: setUserId(user.uid); setIsAuthReady(true); setStatus('Online')
OnAuthUser(p, user) ==
  [p EXCEPT !.userId = <<user>>, !.isAuthReady = <<TRUE>>, !.status = <<"Online">>]

\* mutant: the null branch falls back to the initial status
OnAuthNullConnecting(p) == [p EXCEPT !.status = <<"Connecting...">>]

\* line 93: setStatus('Auth required')
OnAuthNull(p) == [p EXCEPT !.status = <<"Auth required">>]

\* the onAuthStateChanged callback, lines 87-96
AuthCallback ==
  /\ authObserver
  /\ notifQ # <<>>
  /\ LET user == Head(notifQ) IN
       IF user # NULL
         THEN /\ pend' = SetState(OnAuthUser(pend, user))
              /\ UNCHANGED authInFlight
         ELSE /\ pend' = SetState(OnAuthNull(pend))
              /\ authInFlight' = DoAuth(authInFlight)   \* await doAuth()
  /\ notifQ' = Tail(notifQ)
  /\ lastLog' = "none"
  /\ UNCHANGED <<userId, isAuthReady, messages, newMessage, status, dbRef,
                 unsubRef, mount, authObserver, authCleanup, feedEffectPending,
                 feedCleanup, provUser, revokes, live, opened, releaseCalls,
                 inflight, lastSnap>>
  /\ acked' = NoAck
  /\ UNCHANGED sortVars

Notify(q, u) == IF authObserver THEN Append(q, u) ELSE q

\* a sign-in call of doAuth settles; a rejection is caught and logged (82-84)
SignInResult(ok) ==
  /\ authInFlight > 0
  /\ authInFlight' = authInFlight - 1
  /\ IF ok /\ provUser = NULL
       THEN \E u \in Users : provUser' = u /\ notifQ' = Notify(notifQ, u)
       ELSE UNCHANGED <<provUser, notifQ>>
  /\ lastLog' = IF ok THEN "none" ELSE "Auth error:"
  /\ UNCHANGED <<userId, isAuthReady, messages, newMessage, status, pend, dbRef,
                 unsubRef, mount, authObserver, authCleanup, feedEffectPending,
                 feedCleanup, revokes, live, opened, releaseCalls, inflight,
                 lastSnap>>
  /\ acked' = NoAck
  /\ UNCHANGED sortVars

\* the provider drops the user (sign-out elsewhere, revoked token)
ProviderRevokes ==
  /\ provUser # NULL
  /\ revokes < MaxRevokes
  /\ revokes' = revokes + 1
  /\ provUser' = NULL
  /\ notifQ' = Notify(notifQ, NULL)
  /\ lastLog' = "none"
  /\ UNCHANGED <<userId, isAuthReady, messages, newMessage, status, pend, dbRef,
                 unsubRef, mount, authObserver, authCleanup, feedEffectPending,
                 feedCleanup, authInFlight, live, opened, releaseCalls, inflight,
                 lastSnap>>
  /\ acked' = NoAck
  /\ UNCHANGED sortVars

(***************************************************************************)
(* Feed subscription effect                                                *)
(***************************************************************************)
\* the document store as seen by the effect: attached listeners and the
\* number of calls of each handle's unsubscribe function
Store == [live |-> live, calls |-> releaseCalls]

\* mutant: the release is left out
ReleaseCurrentSkipped(ref, st) == st

\* unsubRef.current && unsubRef.current()   (lines 117 and 143)
\* calling the unsubscribe function of a detached listener changes nothing
ReleaseCurrent(ref, st) ==
  IF ref # 0
    THEN [live |-> st.live \ {ref}, calls |-> [st.calls EXCEPT ![ref] = @ + 1]]
    ELSE st

\* mutant: the test of isAuthReady is inverted
FeedGuardNotReady(ready, uid) == ~ready /\ uid # NULL

\* line 111 negated: the effect goes on only if isAuthReady && userId
FeedGuard(ready, uid) == ready /\ uid # NULL

\* The passive-effect flush for the feed effect (lines 110-145): the cleanup
\* returned by the previous run, then the effect body with the committed
\* isAuthReady and userId.  failure names the call of the try block that
\* throws: "getFirestore" (lines 113-115, before the release), "onSnapshot"
\* (line 118, after the release, unsubRef is not assigned) or "none".
FlushPassiveEffects(failure) ==
  /\ mount = "mounted"
  /\ feedEffectPending
  /\ feedEffectPending' = FALSE
  /\ LET afterCleanup == IF feedCleanup THEN ReleaseCurrent(unsubRef, Store) ELSE Store
     IN IF ~FeedGuard(isAuthReady, userId)
          THEN /\ failure = "none"
               /\ feedCleanup' = FALSE            \* return (no cleanup)
               /\ live' = afterCleanup.live
               /\ releaseCalls' = afterCleanup.calls
               /\ lastLog' = "none"
               /\ UNCHANGED <<dbRef, unsubRef, opened>>
          ELSE /\ feedCleanup' = TRUE             \* lines 142-144
               /\ CASE failure = "getFirestore" ->
                         /\ live' = afterCleanup.live
                         /\ releaseCalls' = afterCleanup.calls
                         /\ lastLog' = "Firestore subscribe error:"
                         /\ UNCHANGED <<dbRef, unsubRef, opened>>
                    [] failure = "onSnapshot" ->
                         LET released == ReleaseCurrent(unsubRef, afterCleanup) IN
                         /\ dbRef' = TRUE
                         /\ live' = released.live
                         /\ releaseCalls' = released.calls
                         /\ lastLog' = "Firestore subscribe error:"
                         /\ UNCHANGED <<unsubRef, opened>>
                    [] failure = "none" ->
                         LET released == ReleaseCurrent(unsubRef, afterCleanup)
                             h == opened + 1
                         IN
                         /\ dbRef' = TRUE
                         /\ opened' = h
                         /\ unsubRef' = h            \* unsubRef.current = onSnapshot(...)
                         /\ live' = released.live \cup {h}
                         /\ releaseCalls' = Append(released.calls, 0)
                         /\ lastLog' = "none"
  /\ UNCHANGED <<userId, isAuthReady, messages, newMessage, status, pend, mount,
                 authObserver, authCleanup, provUser, notifQ, authInFlight,
                 revokes, inflight, lastSnap>>
  /\ acked' = NoAck
  /\ UNCHANGED sortVars

\* React commits the queued updates; the feed effect is scheduled when one of
\* its dependencies [isAuthReady, userId] changed
Render ==
  /\ mount = "mounted"
  /\ ~feedEffectPending
  /\ pend # NoPend
  /\ userId' = Latest(userId, pend.userId)
  /\ isAuthReady' = Latest(isAuthReady, pend.isAuthReady)
  /\ messages' = Latest(messages, pend.messages)
  /\ newMessage' = Latest(newMessage, pend.newMessage)
  /\ status' = Latest(status, pend.status)
  /\ pend' = NoPend
  /\ feedEffectPending' = (<<isAuthReady', userId'>> # <<isAuthReady, userId>>)
  /\ lastLog' = "none"
  /\ UNCHANGED <<dbRef, unsubRef, mount, authObserver, authCleanup, feedCleanup,
                 provUser, notifQ, authInFlight, revokes, live, opened,
                 releaseCalls, inflight, lastSnap>>
  /\ acked' = NoAck
  /\ UNCHANGED sortVars

\* mutant: the sort of lines 127-131 is left out
DocsOfSnapshotUnsorted(shown, snap) == snap

\* mutant: the documents are pushed onto the list already shown
DocsOfSnapshotAppended(shown, snap) == SortDocs(shown \o snap)

\* lines 121-131: docs starts empty, receives every document of the snapshot
\* and is sorted; shown is the list of the previous setMessages
DocsOfSnapshot(shown, snap) == SortDocs(snap)

\* the success listener of onSnapshot, lines 120-133
OnSnapshot(snap) ==
  /\ live # {}
  /\ pend' = SetState([pend EXCEPT !.messages =
                         <<DocsOfSnapshot(Latest(messages, pend.messages), snap)>>])
  /\ lastSnap' = snap
  /\ lastLog' = "none"
  /\ UNCHANGED <<userId, isAuthReady, messages, newMessage, status, dbRef,
                 unsubRef, mount, authObserver, authCleanup, feedEffectPending,
                 feedCleanup, provUser, notifQ, authInFlight, revokes, live,
                 opened, releaseCalls, inflight>>
  /\ acked' = IF acked = NoAck THEN NoAck
                 ELSE [acked EXCEPT !.shown = HasMessage(snap, acked)]
  /\ UNCHANGED sortVars

\* mutant: the error listener also detaches the listener
OnSnapshotErrorReleases ==
  /\ live # {}
  /\ lastLog' = "Snapshot error:"
  /\ live' = {}
  /\ UNCHANGED <<userId, isAuthReady, messages, newMessage, status, pend, dbRef,
                 unsubRef, mount, authObserver, authCleanup, feedEffectPending,
                 feedCleanup, provUser, notifQ, authInFlight, revokes,
                 opened, releaseCalls, inflight, lastSnap>>
  /\ acked' = NoAck
  /\ UNCHANGED sortVars

\* the error listener of onSnapshot, lines 134-136: console.error only
OnSnapshotError ==
  /\ live # {}
  /\ lastLog' = "Snapshot error:"
  /\ UNCHANGED <<userId, isAuthReady, messages, newMessage, status, pend, dbRef,
                 unsubRef, mount, authObserver, authCleanup, feedEffectPending,
                 feedCleanup, provUser, notifQ, authInFlight, revokes, live,
                 opened, releaseCalls, inflight, lastSnap>>
  /\ acked' = NoAck
  /\ UNCHANGED sortVars

\* mutant: the cleanup of the auth effect does not call unsub
AuthUnsubSkipped(hasCleanup, observing) == observing

\* lines 101-103: unsub && unsub(), when the auth effect returned its cleanup
AuthUnsub(hasCleanup, observing) == IF hasCleanup THEN FALSE ELSE observing

\* unmount: the cleanups of both effects run (lines 101-103 and 142-144)
Unmount ==
  /\ mount = "mounted"
  /\ ~feedEffectPending
  /\ mount' = "unmounted"
  /\ authObserver' = AuthUnsub(authCleanup, authObserver)
  /\ notifQ' = IF authCleanup THEN <<>> ELSE notifQ   \* nothing is delivered any more
  /\ pend' = NoPend                                   \* queued updates are dropped
  /\ LET afterCleanup == IF feedCleanup THEN ReleaseCurrent(unsubRef, Store) ELSE Store
     IN /\ live' = afterCleanup.live
        /\ releaseCalls' = afterCleanup.calls
  /\ lastLog' = "none"
  /\ UNCHANGED <<userId, isAuthReady, messages, newMessage, status, dbRef,
                 unsubRef, authCleanup, feedEffectPending, feedCleanup, provUser,
                 authInFlight, revokes, opened, inflight, lastSnap>>
  /\ acked' = NoAck
  /\ UNCHANGED sortVars

(***************************************************************************)
(* Composer                                                                *)
(***************************************************************************)
\* onChange: setNewMessage(e.target.value), rendered at the end of the event;
\* a queued setNewMessage('') is rebased below the newer value
OnChange(v) ==
  /\ mount = "mounted"
  /\ ~feedEffectPending
  /\ newMessage' = v
  /\ pend' = [pend EXCEPT !.newMessage = <<>>]
  /\ lastLog' = "none"
  /\ UNCHANGED <<userId, isAuthReady, messages, status, dbRef, unsubRef, mount,
                 authObserver, authCleanup, feedEffectPending, feedCleanup,
                 provUser, notifQ, authInFlight, revokes, live, opened,
                 releaseCalls, inflight, lastSnap>>
  /\ acked' = NoAck
  /\ UNCHANGED sortVars

\* line 170
isSendDisabled == ~isAuthReady \/ userId = NULL \/ Len(Trim(newMessage)) = 0

\* lines 155-157: handleSend goes on to addDoc
SendAllowed(db, uid, draft) == db /\ uid # NULL /\ Trim(draft) # <<>>

\* handleSend, up to the await of addDoc (lines 154-163); via is the trigger:
\* the button (disabled when isSendDisabled) or the Enter key (line 224)
HandleSend(via) ==
  /\ mount = "mounted"
  /\ via = "click" => ~isSendDisabled
  /\ Len(inflight) < MaxInFlight
  /\ IF SendAllowed(dbRef, userId, newMessage)
       THEN inflight' = Append(inflight, [text |-> Trim(newMessage), userId |-> userId])
       ELSE UNCHANGED inflight
  /\ lastLog' = "none"
  /\ UNCHANGED <<userId, isAuthReady, messages, newMessage, status, pend, dbRef,
                 unsubRef, mount, authObserver, authCleanup, feedEffectPending,
                 feedCleanup, provUser, notifQ, authInFlight, revokes, live,
                 opened, releaseCalls, lastSnap>>
  /\ acked' = NoAck
  /\ UNCHANGED sortVars

RemoveAt(s, i) == SubSeq(s, 1, i - 1) \o SubSeq(s, i + 1, Len(s))

\* mutant: the draft is cleared in both branches
AfterAddDocAlwaysClear(p, ok) == [p EXCEPT !.newMessage = << <<>> >>]

\* lines 164-167: setNewMessage('') after the await, console.error in the catch
AfterAddDoc(p, ok) == IF ok THEN [p EXCEPT !.newMessage = << <<>> >>] ELSE p

\* the addDoc promise of the i-th pending write settles
AddDocResult(i, ok) ==
  /\ i \in 1..Len(inflight)
  /\ inflight' = RemoveAt(inflight, i)
  /\ pend' = SetState(AfterAddDoc(pend, ok))
  /\ lastLog' = IF ok THEN "none" ELSE "Send error:"
  /\ UNCHANGED <<userId, isAuthReady, messages, newMessage, status, dbRef,
                 unsubRef, mount, authObserver, authCleanup, feedEffectPending,
                 feedCleanup, provUser, notifQ, authInFlight, revokes, live,
                 opened, releaseCalls, lastSnap>>
  /\ acked' = IF ok THEN [text |-> inflight[i].text, userId |-> inflight[i].userId,
                           shown |-> FALSE]
                 ELSE NoAck
  /\ UNCHANGED sortVars

(***************************************************************************)
(* Specification of the application                                        *)
(***************************************************************************)
Next ==
  \/ \E initThrows \in BOOLEAN : AuthEffect(initThrows)
  \/ AuthCallback
  \/ \E ok \in BOOLEAN : SignInResult(ok)
  \/ ProviderRevokes
  \/ \E failure \in {"none", "getFirestore", "onSnapshot"} : FlushPassiveEffects(failure)
  \/ Render
  \/ \E snap \in FeedSnapshots : OnSnapshot(snap)
  \/ OnSnapshotError
  \/ Unmount
  \/ \E v \in Drafts : OnChange(v)
  \/ \E via \in {"click", "enter"} : HandleSend(via)
  \/ \E i \in 1..MaxInFlight, ok \in BOOLEAN : AddDocResult(i, ok)

Spec == Init /\ [][Next]_vars

\* React runs the effects it scheduled, renders the updates it queued and
\* the event loop runs every callback and promise continuation handed to it
Fairness ==
  /\ WF_vars(\E initThrows \in BOOLEAN : AuthEffect(initThrows))
  /\ WF_vars(AuthCallback)
  /\ WF_vars(\E ok \in BOOLEAN : SignInResult(ok))
  /\ WF_vars(\E failure \in {"none", "getFirestore", "onSnapshot"} : FlushPassiveEffects(failure))
  /\ WF_vars(Render)
  /\ WF_vars(\E i \in 1..MaxInFlight, ok \in BOOLEAN : AddDocResult(i, ok))

FairSpec == Init /\ [][Next]_vars /\ Fairness

(***************************************************************************)
(* Specification of the ordering policy alone: every snapshot of at most   *)
(* MaxSnapLen documents is sorted, and the result is sorted again          *)
(***************************************************************************)
SortInit ==
  /\ AppInit
  /\ provUser = NULL
  /\ docsIn \in Snapshots
  /\ docsOut = <<>>
  /\ docsAgain = <<>>
  /\ sortPc = "idle"

ApplyPolicy ==
  /\ sortPc = "idle"
  /\ docsOut' = SortDocs(docsIn)
  /\ sortPc' = "sorted"
  /\ UNCHANGED <<docsIn, docsAgain>>
  /\ UNCHANGED appVars

ReapplyPolicy ==
  /\ sortPc = "sorted"
  /\ docsAgain' = SortDocs(docsOut)
  /\ sortPc' = "resorted"
  /\ UNCHANGED <<docsIn, docsOut>>
  /\ UNCHANGED appVars

SortNext == ApplyPolicy \/ ReapplyPolicy

SortSpec == SortInit /\ [][SortNext]_vars

(***************************************************************************)
(* Properties                                                              *)
(***************************************************************************)
Handles == 1..opened

\* what the feed and the composer show once the queued updates are rendered
LatestMessages == Latest(messages, pend.messages)
LatestDraft == Latest(newMessage, pend.newMessage)

\* C1: in every step at most one feed subscription is live afterwards, and
\* a step that opens a subscription leaves the new handle as the only live
\* one, the release function of every handle opened before having been called.
C1_SingleSubscription ==
  [][ /\ Cardinality(live') <= 1
      /\ opened' # opened =>
           /\ live' = {opened'}
           /\ \A h \in Handles : releaseCalls'[h] >= 1 ]_vars

\* an identity change has replaced the first subscription by the second
C1_Witness ==
  /\ opened = 2
  /\ live = {2}
  /\ releaseCalls[1] >= 1
  /\ mount = "mounted"

\* C2: every step that opens a feed subscription is taken with a non-null
\* identity and the phase Online.
C2_OpenOnlyWhenOnline ==
  [][ opened' # opened => (userId # NULL /\ status = "Online") ]_vars

\* C3: a live feed subscription implies the phase Online.
C3_LiveImpliesOnline == live # {} => status = "Online"

\* C4 as claimed: the release function of a handle is never called twice, and
\* it has been called exactly once when the handle is no longer the current
\* one or the component is unmounted.
C4_ReleasedExactlyOnce ==
  \A h \in Handles :
    /\ releaseCalls[h] <= 1
    /\ (h # opened \/ mount = "unmounted") => releaseCalls[h] = 1

\* C4 amended: a handle whose validity has ended (a later handle was opened,
\* or the component is unmounted) has had its release function called at
\* least once and is detached; a live handle has never been released.
C4_ReleasedWhenEnded ==
  \A h \in Handles :
    /\ (h # opened \/ mount = "unmounted") => (releaseCalls[h] >= 1 /\ h \notin live)
    /\ h \in live => releaseCalls[h] = 0

\* the first handle was released by the cleanup and again before the open,
\* the second by the teardown
C4_Witness ==
  /\ opened = 2
  /\ releaseCalls[1] = 2
  /\ mount = "unmounted"
  /\ releaseCalls[2] = 1

\* C5: phase Online implies a non-null identity.
C5_OnlineHasIdentity == status = "Online" => userId # NULL

C5_Witness == status = "Online" /\ userId \in Users /\ isAuthReady

\* C6: a submit is a no-op unless the phase is Online, the identity non-null
\* and the trimmed draft non-empty: a step that issues a write is taken in
\* such a state only, and it changes neither the draft nor the queued updates.
C6_SubmitGuard ==
  [][ Len(inflight') > Len(inflight) =>
        /\ status = "Online" /\ userId # NULL /\ Trim(newMessage) # <<>>
        /\ newMessage' = newMessage /\ pend' = pend ]_vars

\* C7: the success of a write queues the empty draft (which the next render
\* commits); the failure of a write changes nothing but the pending writes,
\* which lose that write, so that no write is issued by it.
C7_WriteCompletion ==
  [][ /\ (Len(inflight') < Len(inflight) /\ lastLog' = "none" /\ mount = "mounted")
           => LatestDraft' = <<>>
      /\ lastLog' = "Send error:" =>
           /\ UNCHANGED <<userId, isAuthReady, messages, newMessage, status, pend,
                          dbRef, unsubRef, live, opened, releaseCalls, authInFlight>>
           /\ Len(inflight') = Len(inflight) - 1 ]_vars

\* a write failed and the typed draft is still there
C7_Witness ==
  /\ lastLog = "Send error:"
  /\ Trim(newMessage) # <<>>
  /\ LatestDraft = newMessage
  /\ mount = "mounted"

\* C8: while the component is mounted the feed is the ordering policy applied
\* to the last snapshot delivered (empty before any); the rendered list
\* changes only to that value, and a step that changes the feed is a snapshot
\* delivery: it leaves the pending writes and the draft alone.
C8_FeedIsLastSnapshot ==
  /\ [](mount # "unmounted" => LatestMessages = SortDocs(lastSnap))
  /\ [][ /\ messages' # messages => messages' = SortDocs(lastSnap)
         /\ (LatestMessages' # LatestMessages /\ mount' = "mounted") =>
              /\ live # {}
              /\ UNCHANGED <<messages, inflight, newMessage, live, unsubRef>>
              /\ LatestDraft' = LatestDraft ]_vars

\* a snapshot lacking a document of the previous one has replaced it while a
\* write was pending
C8_Witness ==
  /\ mount = "mounted"
  /\ lastSnap = <<Doc("m3", <<1000>>), Doc("m2", <<>>)>>
  /\ messages = <<Doc("m2", <<>>), Doc("m3", <<1000>>)>>
  /\ pend.messages = <<>>
  /\ inflight # <<>>

IndexOf(s, d) == CHOOSE i \in 1..Len(s) : s[i] = d

SameDocs(s, t) == Len(s) = Len(t) /\ {s[i] : i \in 1..Len(s)} = {t[i] : i \in 1..Len(t)}

\* C9: the output of the ordering policy is a permutation of the snapshot,
\* ascending by the key (millis, or 0 without a timestamp), equal keys in
\* snapshot order; documents without a timestamp precede the stamped ones;
\* the snapshot [2000, 1000] gives the 1000 document first.
C9_StableAscending ==
  sortPc # "idle" =>
    /\ SameDocs(docsIn, docsOut)
    /\ \A i, j \in 1..Len(docsOut) :
         i < j =>
           /\ ToMillisOrZero(docsOut[i]) <= ToMillisOrZero(docsOut[j])
           /\ ToMillisOrZero(docsOut[i]) = ToMillisOrZero(docsOut[j])
                => IndexOf(docsIn, docsOut[i]) < IndexOf(docsIn, docsOut[j])
           /\ docsOut[j].timestamp = <<>> => docsOut[i].timestamp = <<>>
    /\ docsIn = <<Doc("m1", <<2000>>), Doc("m2", <<1000>>)>>
         => docsOut = <<Doc("m2", <<1000>>), Doc("m1", <<2000>>)>>

C9_Witness ==
  /\ sortPc = "sorted"
  /\ docsIn = <<Doc("m1", <<2000>>), Doc("m2", <<>>), Doc("m3", <<1000>>)>>
  /\ docsOut = <<Doc("m2", <<>>), Doc("m3", <<1000>>), Doc("m1", <<2000>>)>>

\* C10: applying the ordering policy to its own output returns that output.
C10_Idempotent == sortPc = "resorted" => docsAgain = docsOut

\* a snapshot mixing two unstamped documents and a stamped one, sorted twice
C10_Witness ==
  /\ sortPc = "resorted"
  /\ docsIn = <<Doc("m1", <<1000>>), Doc("m2", <<>>), Doc("m3", <<>>)>>
  /\ docsAgain = <<Doc("m2", <<>>), Doc("m3", <<>>), Doc("m1", <<1000>>)>>

\* C13: InitError is terminal: once the initialization threw, the phase
\* never leaves "Init error", the identity stays null, no observer is
\* registered, and no sign-in, feed subscription or write is ever started.
C13_InitErrorTerminal ==
  [][ (status = "Init error" \/ pend.status = <<"Init error">>) =>
        /\ status = "Init error" => status' = "Init error"
        /\ status' \in {status, "Init error"}
        /\ userId' = NULL /\ pend'.userId = <<>>
        /\ ~authObserver'
        /\ authInFlight' = 0
        /\ opened' = 0 /\ live' = {}
        /\ inflight' = <<>> ]_vars

\* the phase is InitError and the user has typed a message
C13_Witness ==
  /\ status = "Init error"
  /\ Trim(newMessage) # <<>>
  /\ mount = "mounted"

\* C14: a sign-in attempt is started only by the start-up effect or by the
\* delivery of a null notification, one attempt each; a failed attempt ends
\* that attempt and changes nothing else, so it starts no new attempt.
C14_NoRetryLoop ==
  [][ /\ authInFlight' > authInFlight =>
           /\ authInFlight' = authInFlight + 1
           /\ \/ mount = "initial"
              \/ /\ authObserver /\ notifQ # <<>> /\ Head(notifQ) = NULL
                 /\ notifQ' = Tail(notifQ)
      /\ lastLog' = "Auth error:" =>
           /\ authInFlight' = authInFlight - 1
           /\ UNCHANGED <<userId, isAuthReady, messages, newMessage, status, pend,
                          provUser, notifQ, authObserver, mount, live, opened,
                          inflight>> ]_vars

\* the attempt started by a null notification failed: the phase is still
\* AuthRequired and no attempt is pending
C14_Witness ==
  /\ lastLog = "Auth error:"
  /\ status = "Auth required"
  /\ authInFlight = 0
  /\ notifQ = <<>>
  /\ mount = "mounted"

\* C15: the teardown leaves neither the auth observer nor a feed listener
\* attached, logs no error and changes no component state; with no handle
\* ever opened, or the current handle already released, the set of attached
\* listeners is unchanged.
C15_TeardownSafe ==
  /\ [](mount = "unmounted" => (~authObserver /\ live = {}))
  /\ [][ (mount = "mounted" /\ mount' = "unmounted") =>
           /\ lastLog' = "none"
           /\ UNCHANGED <<userId, isAuthReady, messages, newMessage, status,
                          dbRef, unsubRef, opened, inflight>>
           /\ unsubRef \notin live => live' = live
           /\ opened = 0 => releaseCalls' = releaseCalls ]_vars

\* the teardown released a handle that had already been released twice
C15_Witness ==
  /\ mount = "unmounted"
  /\ opened = 1
  /\ releaseCalls[1] >= 3
  /\ authCleanup

PhaseChanges ==
  { <<"Connecting...", "Online">>, <<"Connecting...", "Auth required">>,
    <<"Auth required", "Online">>, <<"Online", "Auth required">>,
    <<"Connecting...", "Init error">> }

\* C16: the phase starts at Connecting; every change of the phase is one of
\* Connecting -> Online, Connecting -> AuthRequired, AuthRequired -> Online,
\* Online -> AuthRequired, Connecting -> InitError; the step that queues
\* AuthRequired starts a sign-in attempt.
C16_PhaseTransitions ==
  /\ status = "Connecting..."
  /\ [][ /\ status' # status => <<status, status'>> \in PhaseChanges
         /\ (pend'.status = <<"Auth required">> /\ pend'.status # pend.status)
              => authInFlight' = authInFlight + 1 ]_vars

\* the provider reported null after the session was Online
C16_Witness ==
  /\ status = "Auth required"
  /\ userId \in Users
  /\ authInFlight >= 1
  /\ live # {}

\* C18: a delivery error only logs: the step changes nothing else.
C18_ErrorOnlyLogs ==
  [][ lastLog' = "Snapshot error:" =>
        UNCHANGED <<userId, isAuthReady, messages, newMessage, status, pend,
                    dbRef, unsubRef, mount, authObserver, authCleanup,
                    feedEffectPending, feedCleanup, provUser, notifQ,
                    authInFlight, revokes, live, opened, releaseCalls, inflight,
                    lastSnap>> ]_vars

\* an error was delivered on the live subscription of an Online session
C18_Witness ==
  /\ lastLog = "Snapshot error:"
  /\ live = {unsubRef}
  /\ status = "Online"
  /\ messages # <<>>

\* C19: at most one write is in flight.
C19_OneWriteInFlight == Len(inflight) <= 1

\* C20: when a write completes successfully while the composer holds a
\* draft other than the submitted text, the draft is left as it is.
C20_CompletionKeepsNewDraft ==
  [][ (/\ mount = "mounted"
       /\ lastLog' = "none"
       /\ LatestDraft # <<>>
       /\ \E i \in 1..Len(inflight) :
            /\ inflight' = RemoveAt(inflight, i)
            /\ Trim(LatestDraft) # inflight[i].text)
        => LatestDraft' = LatestDraft ]_vars

\* C17: the delivery of a notification that carries the identity the session
\* already holds leaves the phase, the identity, the feed and the draft as
\* they are and neither releases nor opens a feed subscription.
C17_SameIdentityNoChange ==
  [][ (/\ authObserver /\ notifQ # <<>> /\ notifQ' = Tail(notifQ)
       /\ mount' = mount
       /\ Head(notifQ) # NULL
       /\ Head(notifQ) = Latest(userId, pend.userId))
        => /\ Latest(status', pend'.status) = Latest(status, pend.status)
           /\ Latest(userId', pend'.userId) = Latest(userId, pend.userId)
           /\ LatestMessages' = LatestMessages
           /\ LatestDraft' = LatestDraft
           /\ UNCHANGED <<live, opened, releaseCalls, unsubRef>> ]_vars

Ascending(s) ==
  \A k \in 1..(Len(s) - 1) : ToMillisOrZero(s[k]) <= ToMillisOrZero(s[k + 1])

SortedFeedSnapshots == {SortDocs(snap) : snap \in FeedSnapshots}

SessionUp ==
  /\ status = "Online"
  /\ userId # NULL /\ userId = provUser
  /\ Cardinality(live) = 1

====
